---- MODULE Spec2Model ----
(***************************************************************************)
(* Model of scripts/filter_advisories.py: the AdvisoryFilter class         *)
(* (keyword index, pattern matcher, severity gate, relevance matcher,      *)
(* scorer, filter pipeline) and the main() entry point.                    *)
(*                                                                         *)
(* Conventions of the model                                                *)
(*  - A Python str is a sequence of one-character strings, so that lower() *)
(*    strip(), `in` and the \b anchors are computed, not assumed.          *)
(*  - A Python dict read with .get(key, default) is a function whose       *)
(*    DOMAIN holds the keys that are present; Get reads it.  An ordered    *)
(*    mapping that is iterated (categories, matched_keywords) is a         *)
(*    sequence of entries in insertion order.                              *)
(*  - cvssScore and min_cvss are held in tenths (7.0 is 70).               *)
(*  - The iteration order of a Python set of str is fixed by the string    *)
(*    hash seed of the process: it is chosen anew by every run.            *)
(***************************************************************************)
EXTENDS Integers, Sequences, FiniteSets, TLC

VARIABLES
    config,          \* the parsed YAML configuration (self.config)
    advisories,      \* the batch loaded by main()
    pc,              \* position of the run: start, constructed, filtered, done
                     \* (matched, after a unit call of _match_keywords), exited
                     \* after sys.exit(1), aborted after an uncaught exception;
                     \* notify_start, notify_loaded, notify_done in a run of
                     \* generate_notification.py
    keywords,        \* self.keywords: category id -> set of normalized keywords
    kwOrder,         \* the order in which this process iterates each keyword set
    regex_patterns,  \* self.regex_patterns: the compiled patterns
    filtered,        \* the list returned by filter_advisories
    stdout,          \* what main() printed to stdout (NoOutput before that)
    run,             \* 1 for the first run on (config, batch), 2 for the second
    firstOutput,     \* stdout of the first run, kept to compare the second with
    mText,           \* unit call of _match_keywords: the text argument
    mKeyword,        \* unit call of _match_keywords: the one configured keyword
    mResult,         \* unit call of _match_keywords: the returned list
    argv,            \* sys.argv of the run: the script, then its arguments
    exit_status,     \* <<>> while the process runs, <<n>> once it ended with n
    writes,          \* how many times the run has written to stdout
    filtered_data    \* generate_notification.py: the loaded results (None before)

vars == <<config, advisories, pc, keywords, kwOrder, regex_patterns, filtered,
          stdout, run, firstOutput, mText, mKeyword, mResult, argv, exit_status,
          writes, filtered_data>>

processVars == <<argv, exit_status, writes, filtered_data>>

pipelineVars == <<config, advisories, pc, keywords, kwOrder, regex_patterns,
                  filtered, stdout, run, firstOutput>>

matchVars == <<mText, mKeyword, mResult>>

-----------------------------------------------------------------------------
(* Bounds of the model *)

\* longest batch the pipeline is run on
MaxBatch == 3

\* longest text handed to the unit call of _match_keywords
MaxTextLen == 4

\* longest keyword handed to the unit call of _match_keywords
MaxKwLen == 2

-----------------------------------------------------------------------------
(* Characters and strings *)

UpperCase == <<"A", "B", "C", "D", "E", "F", "G", "H", "I", "J", "K", "L", "M", "N", "O",
    "P", "Q", "R", "S", "T", "U", "V", "W", "X", "Y", "Z">>

LowerCase == <<"a", "b", "c", "d", "e", "f", "g", "h", "i", "j", "k", "l", "m", "n", "o",
    "p", "q", "r", "s", "t", "u", "v", "w", "x", "y", "z">>

Digits == <<"0", "1", "2", "3", "4", "5", "6", "7", "8", "9">>

Range(s) == {s[i] : i \in DOMAIN s}

Whitespace == {" ", "\t", "\n"}

\* the characters the regex class \w accepts
WordChars == Range(UpperCase) \cup Range(LowerCase) \cup Range(Digits) \cup {"_"}

Min(a, b) == IF a <= b THEN a ELSE b

Max(a, b) == IF a >= b THEN a ELSE b

\* dict.get(key, default)
Get(d, k, dflt) == IF k \in DOMAIN d THEN d[k] ELSE dflt

\* the empty dict {}
EmptyDict == <<>>

\* the lower-case letter of every upper-case letter
UpperToLower ==
    [c \in Range(UpperCase) |-> LowerCase[CHOOSE i \in DOMAIN UpperCase : UpperCase[i] = c]]

\* str.lower() on one character
LowerChar(c) == IF c \in DOMAIN UpperToLower THEN UpperToLower[c] ELSE c

\* str.lower()
Lower(s) == [i \in DOMAIN s |-> LowerChar(s[i])]

RECURSIVE LStrip(_)
LStrip(s) == IF s # <<>> /\ Head(s) \in Whitespace THEN LStrip(Tail(s)) ELSE s

RECURSIVE RStrip(_)
RStrip(s) ==
    IF s # <<>> /\ s[Len(s)] \in Whitespace THEN RStrip(SubSeq(s, 1, Len(s) - 1)) ELSE s

\* str.strip()
Strip(s) == RStrip(LStrip(s))

RECURSIVE Join(_, _)
\* sep.join(parts)
Join(parts, sep) ==
    IF parts = <<>> THEN <<>>
    ELSE IF Len(parts) = 1 THEN parts[1]
    ELSE parts[1] \o sep \o Join(Tail(parts), sep)

\* needle in haystack (the empty needle is in every string)
Contains(needle, haystack) ==
    \E i \in 1..(Len(haystack) - Len(needle) + 1) :
        SubSeq(haystack, i, i + Len(needle) - 1) = needle

\* whether the character at index i of t exists and is a \w character
IsWordAt(t, i) == i \in DOMAIN t /\ t[i] \in WordChars

\* the regex anchor \b holds between the characters i-1 and i of t
AtWordBoundary(t, i) == IsWordAt(t, i - 1) # IsWordAt(t, i)

\* re.match(r'^[\w]+$', keyword) on a stripped keyword
IsPureWord(keyword) ==
    /\ keyword # <<>>
    /\ \A i \in DOMAIN keyword : keyword[i] \in WordChars

\* the search with the trailing \b anchor left out
WordBoundarySearchLeadingOnly(keyword, text) ==
    \E i \in 1..(Len(text) - Len(keyword) + 1) :
        /\ AtWordBoundary(text, i)
        /\ SubSeq(text, i, i + Len(keyword) - 1) = keyword

\* re.search(r'\b' + re.escape(keyword) + r'\b', text)
WordBoundarySearch(keyword, text) ==
    \E i \in 1..(Len(text) - Len(keyword) + 1) :
        /\ AtWordBoundary(text, i)
        /\ SubSeq(text, i, i + Len(keyword) - 1) = keyword
        /\ AtWordBoundary(text, i + Len(keyword))

RECURSIVE ParenDepthOk(_, _)
ParenDepthOk(p, depth) ==
    IF p = <<>> THEN depth = 0
    ELSE IF Head(p) = "(" THEN ParenDepthOk(Tail(p), depth + 1)
    ELSE IF Head(p) = ")" THEN depth > 0 /\ ParenDepthOk(Tail(p), depth - 1)
    ELSE ParenDepthOk(Tail(p), depth)

RECURSIVE NoUnopenedParen(_, _)
\* no closing parenthesis of p stands outside every group
NoUnopenedParen(p, depth) ==
    IF p = <<>> THEN TRUE
    ELSE IF Head(p) = "(" THEN NoUnopenedParen(Tail(p), depth + 1)
    ELSE IF Head(p) = ")" THEN depth > 0 /\ NoUnopenedParen(Tail(p), depth - 1)
    ELSE NoUnopenedParen(Tail(p), depth)

RECURSIVE DigitRun(_)
\* the digits at the head of p
DigitRun(p) ==
    IF p = <<>> \/ Head(p) \notin Range(Digits) THEN <<>>
    ELSE <<Head(p)>> \o DigitRun(Tail(p))

RECURSIVE StripZeros(_)
StripZeros(d) == IF d # <<>> /\ Head(d) = "0" THEN StripZeros(Tail(d)) ELSE d

RECURSIVE ToNat(_)
\* int() of a short run of digits
ToNat(d) ==
    IF d = <<>> THEN 0
    ELSE 10 * ToNat(SubSeq(d, 1, Len(d) - 1))
            + (CHOOSE v \in 0..9 : Digits[v + 1] = d[Len(d)])

\* int(d) >= MAXREPEAT of the re module, 4294967295, compared by the number of
\* digits and then in two halves of five digits
AtLeastMaxRepeat(d) ==
    LET s == StripZeros(d)
    IN  IF Len(s) # 10 THEN Len(s) > 10
        ELSE LET hi == ToNat(SubSeq(s, 1, 5))
                 lo == ToNat(SubSeq(s, 6, 10))
             IN  hi > 42949 \/ (hi = 42949 /\ lo >= 67295)

\* re.compile(pattern, re.IGNORECASE) raises OverflowError ("the repetition
\* number is too large"): the parser reaches a repetition {n} with n >= MAXREPEAT
ReRaisesOverflow(p) ==
    \E i \in DOMAIN p :
        /\ p[i] = "{"
        /\ NoUnopenedParen(SubSeq(p, 1, i - 1), 0)
        /\ \E d \in {DigitRun(SubSeq(p, i + 1, Len(p)))} :
              /\ d # <<>>
              /\ i + Len(d) + 1 <= Len(p)
              /\ p[i + Len(d) + 1] = "}"
              /\ AtLeastMaxRepeat(d)

\* re.compile(pattern, re.IGNORECASE) succeeds; the configured patterns are
\* literal text, text with an unbalanced parenthesis, which raises re.error, or
\* text with a repetition count too large, which raises OverflowError
ReCompiles(p) == ParenDepthOk(p, 0) /\ ~ReRaisesOverflow(p)

\* compiled.search(text) of a literal pattern compiled with re.IGNORECASE
ReSearch(p, text) == Contains(Lower(p), Lower(text))

-----------------------------------------------------------------------------
(* Defaults written in the code *)

\* severity_config.get('min_cvss', 0.0)
DefaultMinCvss == 0

\* advisory.get('cvssScore', 0.0)
DefaultCvssScore == 0

\* severity_config.get('levels', ['critical', 'high', 'medium', 'low'])
DefaultLevels ==
    << <<"c", "r", "i", "t", "i", "c", "a", "l">>, <<"h", "i", "g", "h">>,
       <<"m", "e", "d", "i", "u", "m">>, <<"l", "o", "w">> >>

DefaultExactMatch == 10

DefaultCategoryMatch == 5

DefaultRegexMatch == 7

DefaultSeverityCritical == 15

DefaultSeverityHigh == 10

DefaultSeverityMedium == 5

\* the score returned when ranking is disabled
DisabledScore == 1

\* self.config.get('ranking', {}).get('max_results', 20)
DefaultMaxResults == 20

\* the value filter_advisory returns for a rejected or unmatched advisory
None == [none |-> TRUE]

-----------------------------------------------------------------------------
(* AdvisoryFilter *)

\* keyword.strip().lower()
NormalizeKeyword(keyword) == Lower(Strip(keyword))

\* _extract_keywords: category id -> set of normalized keywords
ExtractKeywords ==
    LET categories == Get(config, "categories", <<>>)
    IN  [category_id \in {categories[i].id : i \in DOMAIN categories} |->
            LET category_data ==
                    categories[CHOOSE i \in DOMAIN categories :
                                   categories[i].id = category_id].data
                raw == Get(category_data, "keywords", <<>>)
            IN  {NormalizeKeyword(raw[j]) : j \in DOMAIN raw}]

\* the sequences that enumerate the set S once each
Orderings(S) ==
    {o \in [1..Cardinality(S) -> S] : \A i, j \in DOMAIN o : i # j => o[i] # o[j]}

\* the ways a process may iterate the keyword sets of the index: one ordering
\* of each set
IterationOrders(index) ==
    {o \in [DOMAIN index -> UNION {Orderings(index[c]) : c \in DOMAIN index}] :
        \A c \in DOMAIN index : o[c] \in Orderings(index[c])}

\* _compile_regex_patterns: the patterns that compile, in configured order
CompileRegexPatterns ==
    LET regex_config == Get(config, "regex_patterns", EmptyDict)
    IN  IF ~Get(regex_config, "enabled", TRUE) THEN <<>>
        ELSE LET configured == Get(regex_config, "patterns", <<>>)
                 compiled == SelectSeq(configured, LAMBDA pattern_config :
                                 ReCompiles(pattern_config["pattern"]))
             IN  [i \in DOMAIN compiled |->
                    [pattern |-> compiled[i]["pattern"],
                     description |-> Get(compiled[i], "description", ""),
                     original |-> compiled[i]["pattern"]]]

\* _compile_regex_patterns leaves by an exception its except clause, which
\* names re.error only, does not catch
CompileRaises ==
    LET regex_config == Get(config, "regex_patterns", EmptyDict)
    IN  /\ Get(regex_config, "enabled", TRUE)
        /\ \E pattern_config \in Range(Get(regex_config, "patterns", <<>>)) :
              ReRaisesOverflow(pattern_config["pattern"])

\* _check_severity with the CVSS floor compared by <= instead of <
CheckSeverityInclusive(advisory) ==
    LET severity_config == Get(config, "severity", EmptyDict)
    IN  IF ~Get(severity_config, "enabled", TRUE) THEN TRUE
        ELSE LET min_cvss == Get(severity_config, "min_cvss", DefaultMinCvss)
                 allowed_levels == Get(severity_config, "levels", DefaultLevels)
                 cvss_score == Get(advisory, "cvssScore", DefaultCvssScore)
                 severity == Lower(Get(advisory, "severity", <<>>))
             IN  IF cvss_score <= min_cvss THEN FALSE
                 ELSE IF /\ severity # <<>>
                         /\ severity \notin {Lower(allowed_levels[i]) :
                                                i \in DOMAIN allowed_levels}
                      THEN FALSE
                      ELSE TRUE

\* _check_severity
CheckSeverity(advisory) ==
    LET severity_config == Get(config, "severity", EmptyDict)
    IN  IF ~Get(severity_config, "enabled", TRUE) THEN TRUE
        ELSE LET min_cvss == Get(severity_config, "min_cvss", DefaultMinCvss)
                 allowed_levels == Get(severity_config, "levels", DefaultLevels)
                 cvss_score == Get(advisory, "cvssScore", DefaultCvssScore)
                 severity == Lower(Get(advisory, "severity", <<>>))
             IN  IF cvss_score < min_cvss THEN FALSE
                 ELSE IF /\ severity # <<>>
                         /\ severity \notin {Lower(allowed_levels[i]) :
                                                i \in DOMAIN allowed_levels}
                      THEN FALSE
                      ELSE TRUE

\* the keyword test with substring containment for every keyword
KeywordMatchesSubstring(keyword, text_lower) == Contains(keyword, text_lower)

\* the test _match_keywords applies to one keyword of the category
KeywordMatches(keyword, text_lower) ==
    IF IsPureWord(keyword)
    THEN WordBoundarySearch(keyword, text_lower)
    ELSE Contains(keyword, text_lower)

\* _match_keywords: the keywords of the category that match, in the order the
\* process iterates the set
MatchKeywords(text, category_id) ==
    LET category_keywords == Get(kwOrder, category_id, <<>>)
        text_lower == Lower(text)
    IN  SelectSeq(category_keywords, LAMBDA keyword : KeywordMatches(keyword, text_lower))

\* _match_regex_patterns
MatchRegexPatterns(text) ==
    LET hits == SelectSeq(regex_patterns, LAMBDA pattern_info :
                    ReSearch(pattern_info.pattern, text))
    IN  [i \in DOMAIN hits |->
            [description |-> hits[i].description, pattern |-> hits[i].original]]

\* d[key] = value on an insertion-ordered dict held as a sequence of entries
DictSet(d, key, value) ==
    IF \E i \in DOMAIN d : d[i].key = key
    THEN [i \in DOMAIN d |-> IF d[i].key = key THEN [key |-> key, value |-> value] ELSE d[i]]
    ELSE Append(d, [key |-> key, value |-> value])

RECURSIVE SumLens(_)
\* sum(len(keywords) for keywords in matched_keywords.values())
SumLens(d) == IF d = <<>> THEN 0 ELSE Len(Head(d).value) + SumLens(Tail(d))

\* the severity branch comparing the severity as written, not lower-cased
SeverityBonusNoLower(weights, advisory) ==
    LET severity == Get(advisory, "severity", <<>>)
    IN  IF severity = <<"c", "r", "i", "t", "i", "c", "a", "l">>
        THEN Get(weights, "severity_critical", DefaultSeverityCritical)
        ELSE IF severity = <<"h", "i", "g", "h">>
        THEN Get(weights, "severity_high", DefaultSeverityHigh)
        ELSE IF severity = <<"m", "e", "d", "i", "u", "m">>
        THEN Get(weights, "severity_medium", DefaultSeverityMedium)
        ELSE 0

\* the severity branch of _calculate_relevance_score
SeverityBonus(weights, advisory) ==
    LET severity == Lower(Get(advisory, "severity", <<>>))
    IN  IF severity = <<"c", "r", "i", "t", "i", "c", "a", "l">>
        THEN Get(weights, "severity_critical", DefaultSeverityCritical)
        ELSE IF severity = <<"h", "i", "g", "h">>
        THEN Get(weights, "severity_high", DefaultSeverityHigh)
        ELSE IF severity = <<"m", "e", "d", "i", "u", "m">>
        THEN Get(weights, "severity_medium", DefaultSeverityMedium)
        ELSE 0

\* _calculate_relevance_score
CalculateRelevanceScore(matches, advisory) ==
    LET ranking_config == Get(config, "ranking", EmptyDict)
    IN  IF ~Get(ranking_config, "enabled", TRUE) THEN DisabledScore
        ELSE LET weights == Get(ranking_config, "weights", EmptyDict)
                 total_keyword_matches == SumLens(matches.matched_keywords)
             IN  total_keyword_matches * Get(weights, "exact_match", DefaultExactMatch)
                 + Len(matches.matched_categories)
                     * Get(weights, "category_match", DefaultCategoryMatch)
                 + Len(matches.matched_patterns)
                     * Get(weights, "regex_match", DefaultRegexMatch)
                 + SeverityBonus(weights, advisory)

\* the searchable text filter_advisory builds from the advisory
SearchableText(advisory) ==
    Join(<< Get(advisory, "id", <<>>),
            Get(advisory, "description", <<>>),
            Get(advisory, "summary", <<>>),
            Get(advisory, "title", <<>>),
            Join(Get(advisory, "references", <<>>), <<" ">>) >>, <<" ">>)

RECURSIVE MatchCategories(_, _, _)
\* the category loop of filter_advisory, run over the categories left to visit
\* with the matched_keywords and matched_categories built so far
MatchCategories(categories, text, acc) ==
    IF categories = <<>> THEN acc
    ELSE LET category_id == Head(categories).id
             category_name == Get(Head(categories).data, "name", category_id)
             kws == MatchKeywords(text, category_id)
         IN  MatchCategories(Tail(categories), text,
                 IF kws # <<>>
                 THEN [matched_keywords |->
                           DictSet(acc.matched_keywords, category_name, kws),
                       matched_categories |->
                           Append(acc.matched_categories, category_name)]
                 ELSE acc)

\* what filter_advisory matches once the advisory passed the gate
Matches(advisory) ==
    LET text == SearchableText(advisory)
        byCategory == MatchCategories(Get(config, "categories", <<>>), text,
                          [matched_keywords |-> <<>>, matched_categories |-> <<>>])
    IN  [matched_keywords |-> byCategory.matched_keywords,
         matched_categories |-> byCategory.matched_categories,
         matched_patterns |-> MatchRegexPatterns(text)]

\* filter_advisory dropping an advisory unless keywords and patterns both matched
FilterAdvisoryBothNeeded(advisory) ==
    IF ~CheckSeverity(advisory) THEN None
    ELSE LET matches == Matches(advisory)
         IN  IF matches.matched_keywords = <<>> \/ matches.matched_patterns = <<>>
             THEN None
             ELSE [advisory |-> advisory,
                   matches |-> matches,
                   relevance_score |-> CalculateRelevanceScore(matches, advisory)]

\* filter_advisory without the severity check
FilterAdvisoryNoGate(advisory) ==
    LET matches == Matches(advisory)
    IN  IF matches.matched_keywords = <<>> /\ matches.matched_patterns = <<>>
        THEN None
        ELSE [advisory |-> advisory,
              matches |-> matches,
              relevance_score |-> CalculateRelevanceScore(matches, advisory)]

\* filter_advisory: a Scored Result, or None
FilterAdvisory(advisory) ==
    IF ~CheckSeverity(advisory) THEN None
    ELSE LET matches == Matches(advisory)
         IN  IF matches.matched_keywords = <<>> /\ matches.matched_patterns = <<>>
             THEN None
             ELSE [advisory |-> advisory,
                   matches |-> matches,
                   relevance_score |-> CalculateRelevanceScore(matches, advisory)]

RECURSIVE Collect(_)
\* the loop of filter_advisories: the results that are not None, in batch order
Collect(batch) ==
    IF batch = <<>> THEN <<>>
    ELSE LET result == FilterAdvisory(Head(batch))
         IN  IF result # None THEN <<result>> \o Collect(Tail(batch))
             ELSE Collect(Tail(batch))

\* a descending sort that puts x in front of the elements of equal score
InsertDescendingUnstable(s, x) ==
    LET behind == {i \in DOMAIN s : s[i].relevance_score > x.relevance_score}
        k == IF behind = {} THEN 0 ELSE CHOOSE i \in behind : \A j \in behind : j <= i
    IN  SubSeq(s, 1, k) \o <<x>> \o SubSeq(s, k + 1, Len(s))

\* where a stable descending sort puts x in the sorted list s: behind every
\* element whose score is at least x's
InsertDescending(s, x) ==
    LET behind == {i \in DOMAIN s : s[i].relevance_score >= x.relevance_score}
        k == IF behind = {} THEN 0 ELSE CHOOSE i \in behind : \A j \in behind : j <= i
    IN  SubSeq(s, 1, k) \o <<x>> \o SubSeq(s, k + 1, Len(s))

RECURSIVE SortByScore(_)
\* list.sort(key=relevance_score, reverse=True): descending and stable
SortByScore(s) ==
    IF s = <<>> THEN <<>>
    ELSE InsertDescending(SortByScore(SubSeq(s, 1, Len(s) - 1)), s[Len(s)])

\* the slice s[:n] of Python, n of either sign
SlicePrefix(s, n) ==
    IF n >= 0 THEN SubSeq(s, 1, Min(n, Len(s)))
    ELSE SubSeq(s, 1, Max(0, Len(s) + n))

\* ranking.max_results as filter_advisories reads it
MaxResults == Get(Get(config, "ranking", EmptyDict), "max_results", DefaultMaxResults)

\* filter_advisories
FilterAdvisories(batch) == SlicePrefix(SortByScore(Collect(batch)), MaxResults)

\* the statistic main() formats with f"{filter_efficiency:.1f}%", in tenths of
\* a percent, rounded to the nearest tenth; 0.0 on an empty batch
FilterEfficiency(nFiltered, nTotal) ==
    IF nTotal > 0 THEN (2000 * nFiltered + nTotal) \div (2 * nTotal) ELSE 0

RECURSIVE DecimalDigits(_)
\* the decimal digits of a natural number
DecimalDigits(n) ==
    IF n < 10 THEN <<Digits[n + 1]>>
    ELSE DecimalDigits(n \div 10) \o <<Digits[(n % 10) + 1]>>

\* f"{filter_efficiency:.1f}%" of a percentage given in tenths
FormatPercent(tenths) ==
    DecimalDigits(tenths \div 10) \o <<".">> \o <<Digits[(tenths % 10) + 1]>> \o <<"%">>

\* the Filtered Batch with regex_patterns_used counting the configured patterns
OutputCountsConfiguredPatterns ==
    [total_advisories |-> Len(advisories),
     filtered_advisories |-> Len(filtered),
     results |-> filtered,
     statistics |->
        [filter_efficiency |->
            FormatPercent(FilterEfficiency(Len(filtered), Len(advisories))),
         categories_used |-> Cardinality(DOMAIN keywords),
         regex_patterns_used |->
            Len(Get(Get(config, "regex_patterns", EmptyDict), "patterns", <<>>))]]

\* the Filtered Batch main() prints
Output ==
    [total_advisories |-> Len(advisories),
     filtered_advisories |-> Len(filtered),
     results |-> filtered,
     statistics |->
        [filter_efficiency |->
            FormatPercent(FilterEfficiency(Len(filtered), Len(advisories))),
         categories_used |-> Cardinality(DOMAIN keywords),
         regex_patterns_used |-> Len(regex_patterns)]]

\* nothing printed to stdout
NoOutput == [printed |-> FALSE]

-----------------------------------------------------------------------------
(* The inputs the model is run on *)

K_xss_raw == <<" ", "X", "S", "S", " ">>

K_xss == <<"x", "s", "s">>

K_sqli == <<"s", "q", "l", " ", "i", "n", "j", "e", "c", "t", "i", "o", "n">>

K_blank == <<" ", " ">>

K_log4j == <<"l", "o", "g", "4", "j">>

K_log4j2_dash == <<"l", "o", "g", "4", "j", "2", "-">>

K_log4j_core == <<"l", "o", "g", "4", "j", "2", "-", "c", "o", "r", "e">>

T_sqli == <<"S", "Q", "L", " ", "I", "n", "j", "e", "c", "t", "i", "o", "n", " ", "v", "u",
    "l", "n", "e", "r", "a", "b", "i", "l", "i", "t", "y", " ", "i", "n", " ", "w", "i", "d",
    "g", "e", "t">>

T_xss == <<"X", "S", "S", " ", "i", "s", "s", "u", "e">>

T_both == <<"x", "s", "s", " ", "o", "r", " ", "S", "Q", "L", " ", "i", "n", "j", "e", "c",
    "t", "i", "o", "n">>

T_rce == <<"r", "c", "e", " ", "i", "n", " ", "l", "o", "g", "4", "j", "2", "-", "c", "o",
    "r", "e">>

T_none == <<"b", "u", "f", "f", "e", "r", " ", "o", "v", "e", "r", "f", "l", "o", "w">>

T_uses_log4j == <<"u", "s", "e", "s", " ", "l", "o", "g", "4", "j", "2", "-", "c", "o", "r",
    "e">>

T_xss_vuln == <<"X", "S", "S", " ", "v", "u", "l", "n", "e", "r", "a", "b", "i", "l", "i",
    "t", "y">>

T_taxssystem == <<"t", "a", "x", "s", "s", "y", "s", "t", "e", "m">>

P_rce == <<"R", "C", "E">>

P_bad == <<"(">>

P_sql == <<"s", "q", "l">>

P_overflow == <<"a", "{", "9", "9", "9", "9", "9", "9", "9", "9", "9", "9", "9", "}">>

S_critical == <<"c", "r", "i", "t", "i", "c", "a", "l">>

S_Critical == <<"C", "r", "i", "t", "i", "c", "a", "l">>

S_high == <<"h", "i", "g", "h">>

S_HIGH == <<"H", "I", "G", "H">>

S_medium == <<"m", "e", "d", "i", "u", "m">>

S_low == <<"l", "o", "w">>

S_LOW == <<"L", "O", "W">>

S_bogus == <<"b", "o", "g", "u", "s">>

CatInjection ==
    [id |-> "injection",
     data |-> [name |-> "Injection", keywords |-> <<K_xss_raw, K_sqli, K_xss>>]]

\* a category with no display name
CatLogging == [id |-> "logging", data |-> [keywords |-> <<K_log4j_core>>]]

\* a category whose only keyword is empty once normalized
CatBlank == [id |-> "misc", data |-> [name |-> "Misc", keywords |-> <<K_blank>>]]

\* a second category id under the display name of CatInjection
CatAlias == [id |-> "xss", data |-> [name |-> "Injection", keywords |-> <<K_xss>>]]

RegexBadThenRce ==
    [patterns |-> << [pattern |-> P_bad, description |-> "broken"],
                     [pattern |-> P_rce, description |-> "remote code execution"] >>]

RegexDisabled == [enabled |-> FALSE, patterns |-> << [pattern |-> P_rce] >>]

RegexOverflow ==
    [patterns |-> << [pattern |-> P_rce], [pattern |-> P_overflow],
                     [pattern |-> P_sql] >>]

RegexValidBadValid ==
    [enabled |-> TRUE,
     patterns |-> << [pattern |-> P_rce], [pattern |-> P_bad],
                     [pattern |-> P_sql, description |-> "sql"] >>]

CustomWeights ==
    [exact_match |-> 3, category_match |-> 2, regex_match |-> 4,
     severity_critical |-> 20, severity_high |-> 9, severity_medium |-> 1]

PartialWeights == [exact_match |-> 3, severity_high |-> 9]

\* a dict with the entries of full whose key is in keys
Restrict(full, keys) == [k \in keys |-> full[k]]

\* the ranking settings of the pipeline runs: max_results of either sign
RankingChoices ==
    {EmptyDict, [enabled |-> FALSE], [max_results |-> 0 - 1], [max_results |-> 0],
     [max_results |-> 1], [enabled |-> FALSE, max_results |-> 1]}

\* the configurations of the pipeline runs: categories, patterns, a CVSS floor
\* and the ranking settings vary; one configuration has the blank keyword, one
\* has ranking disabled and a negative max_results
PipelineConfigs ==
    {[categories |-> c, regex_patterns |-> r, severity |-> s[1], ranking |-> s[2]] :
        c \in { <<CatInjection>>, <<CatLogging, CatInjection, CatAlias>> },
        r \in {EmptyDict, RegexBadThenRce},
        s \in ({EmptyDict} \X RankingChoices)
              \cup ({[min_cvss |-> 70]} \X {EmptyDict, [max_results |-> 1]})}
    \cup {[categories |-> <<CatBlank>>],
          [categories |-> <<CatInjection>>,
           ranking |-> [enabled |-> FALSE, max_results |-> 0 - 1]]}

\* the configurations of the runs on one advisory that exercise the gate
GateConfigs ==
    {[categories |-> <<CatInjection>>, severity |-> s] :
        s \in {Restrict([enabled |-> e, min_cvss |-> m, levels |-> l], keys) :
                  e \in BOOLEAN, m \in {70}, l \in {<<S_Critical, S_HIGH>>, <<>>},
                  keys \in SUBSET {"enabled", "min_cvss", "levels"}}}

\* the configurations of the runs on one advisory that exercise the scorer
ScoreConfigs ==
    {[categories |-> c, regex_patterns |-> r, ranking |-> k] :
        c \in { <<CatInjection>>, <<CatLogging, CatInjection, CatAlias>> },
        r \in {RegexBadThenRce, RegexDisabled},
        k \in {[enabled |-> TRUE], [enabled |-> FALSE, weights |-> CustomWeights],
               [weights |-> EmptyDict], [weights |-> CustomWeights],
               [weights |-> PartialWeights]}}

\* configurations without a categories key
BareConfigs ==
    {EmptyDict, [regex_patterns |-> RegexBadThenRce],
     [regex_patterns |-> RegexValidBadValid], [regex_patterns |-> RegexDisabled],
     [regex_patterns |-> RegexOverflow]}

Advisory(n) == <<"C", "V", "E", "-", Digits[n + 1]>>

\* the two advisories of the scenario of the specification, and three more
Adv1 == [id |-> Advisory(1), severity |-> S_critical, cvssScore |-> 98,
         description |-> T_sqli]

Adv2 == [id |-> Advisory(2), severity |-> S_low, cvssScore |-> 30,
         description |-> T_xss]

Adv3 == [id |-> Advisory(3), severity |-> S_HIGH, cvssScore |-> 75, title |-> T_rce,
         references |-> << <<"h", "t", "t", "p">>, T_both >>]

Adv4 == [id |-> Advisory(4), description |-> T_none]

Adv5 == [id |-> Advisory(5), severity |-> S_LOW, cvssScore |-> 80, summary |-> T_xss]

AdvisoryPool == {Adv1, Adv2, Adv3, Adv4, Adv5}

\* the batches of at most MaxBatch advisories of the pool, none listed twice
Batches ==
    UNION {{b \in [1..n -> AdvisoryPool] : \A i, j \in 1..n : i # j => b[i] # b[j]} :
              n \in 0..MaxBatch}

\* the advisories the gate is exercised on: every severity spelling and score
GateAdvisories ==
    {Restrict([id |-> Advisory(6), description |-> T_xss, severity |-> s, cvssScore |-> c],
              keys \cup {"id", "description"}) :
        s \in {<<>>, S_critical, S_HIGH, S_low, S_bogus}, c \in {0, 69, 70, 98},
        keys \in SUBSET {"severity", "cvssScore"}}

\* the advisories the scorer is exercised on
ScoreAdvisories ==
    {Restrict([id |-> Advisory(7), description |-> d, severity |-> s],
              keys \cup {"id", "description"}) :
        d \in {T_xss, T_both, T_rce},
        s \in {<<>>, S_Critical, S_high, S_medium, S_LOW, S_bogus},
        keys \in SUBSET {"severity"}}

\* the (configuration, batch) pairs the pipeline is run on
Inputs ==
    (PipelineConfigs \X Batches)
    \cup (GateConfigs \X {<<a>> : a \in GateAdvisories})
    \cup (ScoreConfigs \X {<<a>> : a \in ScoreAdvisories})
    \cup (BareConfigs \X {<<Adv3>>})

-----------------------------------------------------------------------------
(* The command lines and files of the two scripts *)

\* sys.exit(1)
FailureStatus == 1

\* the status of a process ended by an uncaught exception
UncaughtStatus == 1

\* the status of a process whose main() returned
SuccessStatus == 0

\* a file named on the command line: whether open() finds it and whether its
\* text parses, and what it holds once parsed
File(exists, parses, content) ==
    [exists |-> exists, parses |-> parses, content |-> content]

\* the try block around open() and json.load() / yaml.safe_load() ends normally
Loads(file) == file.exists /\ file.parses

\* a file that loads; what it holds is in config or advisories
ReadableFile == File(TRUE, TRUE, None)

\* the files that do not load: missing, or present with text that does not parse
UnloadableFiles == {File(FALSE, FALSE, None), File(TRUE, FALSE, None)}

\* sys.argv of filter_advisories.py <config_file> <advisories_file>
FilterArgv(config_file, advisories_file) ==
    <<"filter_advisories.py", config_file, advisories_file>>

\* the command lines of filter_advisories.py that end in a fatal error
FailingFilterArgvs ==
    {<<"filter_advisories.py">>, <<"filter_advisories.py", ReadableFile>>}
    \cup {FilterArgv(c, a) : c \in UnloadableFiles \cup {ReadableFile},
                              a \in UnloadableFiles}
    \cup {FilterArgv(c, ReadableFile) : c \in UnloadableFiles}

\* a Filtered Batch written by an earlier run of filter_advisories.py
SavedResults ==
    [total_advisories |-> 1, filtered_advisories |-> 0, results |-> <<>>,
     statistics |-> [filter_efficiency |-> <<"0", ".", "0", "%">>,
                     categories_used |-> 1, regex_patterns_used |-> 0]]

F_markdown == <<"m", "a", "r", "k", "d", "o", "w", "n">>

F_json == <<"j", "s", "o", "n">>

F_JSON == <<"J", "S", "O", "N">>

F_teams == <<"t", "e", "a", "m", "s">>

F_Slack == <<"S", "l", "a", "c", "k">>

F_slack == <<"s", "l", "a", "c", "k">>

F_html == <<"h", "t", "m", "l">>

F_empty == <<>>

\* the formats asked for: the four of the dispatch, in either case, and others
RequestedFormats == {F_markdown, F_json, F_JSON, F_teams, F_Slack, F_html, F_empty}

\* the command lines of generate_notification.py <results_file> <output_format>
NotifyArgvs ==
    {<<"generate_notification.py">>,
     <<"generate_notification.py", File(TRUE, TRUE, SavedResults)>>}
    \cup {<<"generate_notification.py", f, o>> :
             f \in UnloadableFiles \cup {File(TRUE, TRUE, SavedResults)},
             o \in RequestedFormats}

\* the dispatch of main() on the lower-cased format with every unknown format
\* rendered as markdown
RenderDefaultsToMarkdown(output_format, data) ==
    IF output_format = F_json THEN [renderer |-> "generate_json", data |-> data]
    ELSE IF output_format = F_teams
        THEN [renderer |-> "generate_teams_payload", data |-> data]
    ELSE IF output_format = F_slack
        THEN [renderer |-> "generate_slack_payload", data |-> data]
    ELSE [renderer |-> "generate_markdown", data |-> data]

\* the dispatch of main() of generate_notification.py on the lower-cased
\* format: the text of the renderer called, kept as the renderer's name and its
\* argument, or None when no branch takes the format
Render(output_format, data) ==
    IF output_format = F_markdown THEN [renderer |-> "generate_markdown", data |-> data]
    ELSE IF output_format = F_json THEN [renderer |-> "generate_json", data |-> data]
    ELSE IF output_format = F_teams
        THEN [renderer |-> "generate_teams_payload", data |-> data]
    ELSE IF output_format = F_slack
        THEN [renderer |-> "generate_slack_payload", data |-> data]
    ELSE None

-----------------------------------------------------------------------------
(* The runs of main() *)

\* a run of either script: filter_advisories.py on files that load, with the
\* configuration and the batch they hold; filter_advisories.py on a short
\* command line or on a file that does not load; generate_notification.py
Init ==
    /\ \/ /\ \E input \in Inputs : config = input[1] /\ advisories = input[2]
          /\ argv = FilterArgv(ReadableFile, ReadableFile)
          /\ pc = "start"
       \/ /\ argv \in FailingFilterArgvs
          /\ config = EmptyDict
          /\ advisories = <<Adv3>>
          /\ pc = "start"
       \/ /\ argv \in NotifyArgvs
          /\ config = EmptyDict
          /\ advisories = <<>>
          /\ pc = "notify_start"
    /\ exit_status = <<>>
    /\ writes = 0
    /\ filtered_data = None
    /\ keywords = EmptyDict
    /\ kwOrder = EmptyDict
    /\ regex_patterns = <<>>
    /\ filtered = <<>>
    /\ stdout = NoOutput
    /\ run = 1
    /\ firstOutput = NoOutput
    /\ mText = <<>>
    /\ mKeyword = <<>>
    /\ mResult = <<>>

\* AdvisoryFilter.__init__: the keyword index and the compiled patterns; the
\* order in which each keyword set will be iterated is the process's own
Construct ==
    /\ pc = "start"
    /\ Len(argv) >= 3
    /\ Loads(argv[3])
    /\ Loads(argv[2])
    /\ ~CompileRaises
    /\ \E index \in {ExtractKeywords} :
          /\ keywords' = index
          /\ kwOrder' \in IterationOrders(index)
    /\ regex_patterns' = CompileRegexPatterns
    /\ pc' = "constructed"
    /\ UNCHANGED <<config, advisories, filtered, stdout, run, firstOutput, matchVars,
                   processVars>>

\* AdvisoryFilter.__init__ left by the exception of _compile_regex_patterns:
\* main() does not catch it and the run ends with a traceback
ConstructRaises ==
    /\ pc = "start"
    /\ Len(argv) >= 3
    /\ Loads(argv[3])
    /\ Loads(argv[2])
    /\ CompileRaises
    /\ pc' = "aborted"
    /\ exit_status' = <<UncaughtStatus>>
    /\ UNCHANGED <<config, advisories, keywords, kwOrder, regex_patterns, filtered,
                   stdout, run, firstOutput, matchVars, argv, writes, filtered_data>>

\* main() of filter_advisories.py called with fewer than two arguments
Usage ==
    /\ pc = "start"
    /\ Len(argv) < 3
    /\ pc' = "exited"
    /\ exit_status' = <<FailureStatus>>
    /\ UNCHANGED <<config, advisories, keywords, kwOrder, regex_patterns, filtered,
                   stdout, run, firstOutput, matchVars, argv, writes, filtered_data>>

\* main(): open() or json.load() of the advisories file raises
AdvisoriesLoadFails ==
    /\ pc = "start"
    /\ Len(argv) >= 3
    /\ ~Loads(argv[3])
    /\ pc' = "exited"
    /\ exit_status' = <<FailureStatus>>
    /\ UNCHANGED <<config, advisories, keywords, kwOrder, regex_patterns, filtered,
                   stdout, run, firstOutput, matchVars, argv, writes, filtered_data>>

\* _load_config: open() or yaml.safe_load() of the configuration file raises,
\* after the advisories were loaded
ConfigLoadFails ==
    /\ pc = "start"
    /\ Len(argv) >= 3
    /\ Loads(argv[3])
    /\ ~Loads(argv[2])
    /\ pc' = "exited"
    /\ exit_status' = <<FailureStatus>>
    /\ UNCHANGED <<config, advisories, keywords, kwOrder, regex_patterns, filtered,
                   stdout, run, firstOutput, matchVars, argv, writes, filtered_data>>

\* filter_engine.filter_advisories(advisories)
Filter ==
    /\ pc = "constructed"
    /\ filtered' = FilterAdvisories(advisories)
    /\ pc' = "filtered"
    /\ UNCHANGED <<config, advisories, keywords, kwOrder, regex_patterns, stdout, run,
                   firstOutput, matchVars, processVars>>

\* print(json.dumps(output, indent=2))
Emit ==
    /\ pc = "filtered"
    /\ stdout' = Output
    /\ writes' = writes + 1
    /\ exit_status' = <<SuccessStatus>>
    /\ pc' = "done"
    /\ UNCHANGED <<config, advisories, keywords, kwOrder, regex_patterns, filtered, run,
                   firstOutput, matchVars, argv, filtered_data>>

\* the script is started again on the same configuration and batch
Rerun ==
    /\ pc = "done"
    /\ run = 1
    /\ firstOutput' = stdout
    /\ run' = 2
    /\ pc' = "start"
    /\ keywords' = EmptyDict
    /\ kwOrder' = EmptyDict
    /\ regex_patterns' = <<>>
    /\ filtered' = <<>>
    /\ stdout' = NoOutput
    /\ exit_status' = <<>>
    /\ writes' = 0
    /\ UNCHANGED <<config, advisories, matchVars, argv, filtered_data>>

\* main() of generate_notification.py called with fewer than two arguments
NotifyUsage ==
    /\ pc = "notify_start"
    /\ Len(argv) < 3
    /\ pc' = "exited"
    /\ exit_status' = <<FailureStatus>>
    /\ UNCHANGED <<config, advisories, keywords, kwOrder, regex_patterns, filtered,
                   stdout, run, firstOutput, matchVars, argv, writes, filtered_data>>

\* generate_notification.py: open() or json.load() of the results file raises
ResultsLoadFails ==
    /\ pc = "notify_start"
    /\ Len(argv) >= 3
    /\ ~Loads(argv[2])
    /\ pc' = "exited"
    /\ exit_status' = <<FailureStatus>>
    /\ UNCHANGED <<config, advisories, keywords, kwOrder, regex_patterns, filtered,
                   stdout, run, firstOutput, matchVars, argv, writes, filtered_data>>

\* generate_notification.py: the results file is loaded
ResultsLoad ==
    /\ pc = "notify_start"
    /\ Len(argv) >= 3
    /\ Loads(argv[2])
    /\ filtered_data' = argv[2].content
    /\ pc' = "notify_loaded"
    /\ UNCHANGED <<config, advisories, keywords, kwOrder, regex_patterns, filtered,
                   stdout, run, firstOutput, matchVars, argv, exit_status, writes>>

\* generate_notification.py: no branch of the dispatch takes the format
UnknownFormat ==
    /\ pc = "notify_loaded"
    /\ Render(Lower(argv[3]), filtered_data) = None
    /\ pc' = "exited"
    /\ exit_status' = <<FailureStatus>>
    /\ UNCHANGED <<config, advisories, keywords, kwOrder, regex_patterns, filtered,
                   stdout, run, firstOutput, matchVars, argv, writes, filtered_data>>

\* generate_notification.py: the notification is rendered and printed
NotifyEmit ==
    /\ pc = "notify_loaded"
    /\ Render(Lower(argv[3]), filtered_data) # None
    /\ stdout' = Render(Lower(argv[3]), filtered_data)
    /\ writes' = writes + 1
    /\ exit_status' = <<SuccessStatus>>
    /\ pc' = "notify_done"
    /\ UNCHANGED <<config, advisories, keywords, kwOrder, regex_patterns, filtered,
                   run, firstOutput, matchVars, argv, filtered_data>>

Next ==
    \/ Usage \/ AdvisoriesLoadFails \/ ConfigLoadFails
    \/ Construct \/ ConstructRaises \/ Filter \/ Emit \/ Rerun
    \/ NotifyUsage \/ ResultsLoadFails \/ ResultsLoad \/ UnknownFormat \/ NotifyEmit

Spec == Init /\ [][Next]_vars

-----------------------------------------------------------------------------
(* Unit calls of _match_keywords on one configured keyword and one text *)

\* the characters of the keywords tried: word characters, a hyphen, a blank
KeywordAlphabet == {"x", "s", "-", " "}

\* the characters of the texts tried: word characters (a letter of each case,
\* the underscore) and a hyphen
TextAlphabet == {"x", "S", "_", "-"}

\* the strings over alphabet of at most n characters
Strings(alphabet, n) == UNION {[1..k -> alphabet] : k \in 0..n}

\* the examples of the specification
Examples ==
    { <<K_log4j, T_uses_log4j>>, <<K_log4j2_dash, T_uses_log4j>>,
      <<K_xss, T_xss_vuln>>, <<K_xss, T_taxssystem>>, <<K_xss_raw, T_xss>> }

UnitInputs == (Strings(KeywordAlphabet, MaxKwLen) \X Strings(TextAlphabet, MaxTextLen))
              \cup Examples

InitMatch ==
    /\ \E input \in UnitInputs :
          /\ mKeyword = input[1]
          /\ mText = input[2]
          /\ config = [categories |->
                          << [id |-> "unit", data |-> [keywords |-> <<input[1]>>]] >>]
    /\ advisories = <<>>
    /\ pc = "start"
    /\ keywords = EmptyDict
    /\ kwOrder = EmptyDict
    /\ regex_patterns = <<>>
    /\ filtered = <<>>
    /\ stdout = NoOutput
    /\ run = 1
    /\ firstOutput = NoOutput
    /\ mResult = <<>>
    /\ argv = FilterArgv(ReadableFile, ReadableFile)
    /\ exit_status = <<>>
    /\ writes = 0
    /\ filtered_data = None

\* self._match_keywords(text, category_id) on the constructed filter
MatchCall ==
    /\ pc = "constructed"
    /\ mResult' = MatchKeywords(mText, "unit")
    /\ pc' = "matched"
    /\ UNCHANGED <<config, advisories, keywords, kwOrder, regex_patterns, filtered,
                   stdout, run, firstOutput, mText, mKeyword, processVars>>

NextMatch == Construct \/ MatchCall

SpecMatch == InitMatch /\ [][NextMatch]_vars

-----------------------------------------------------------------------------
(* Properties: what the specification states, in its own terms *)

\* severity.enabled, true when absent
GateEnabled == Get(Get(config, "severity", EmptyDict), "enabled", TRUE)

\* the advisory is below the CVSS floor (a missing score counts as 0.0)
BelowFloor(A) ==
    Get(A, "cvssScore", 0) < Get(Get(config, "severity", EmptyDict), "min_cvss", 0)

\* the advisory has a non-empty severity that, lower-cased, is not among the
\* lower-cased allowed levels
LevelNotAllowed(A) ==
    LET levels == Get(Get(config, "severity", EmptyDict), "levels",
                      <<S_critical, S_high, S_medium, S_low>>)
    IN  /\ "severity" \in DOMAIN A
        /\ A["severity"] # <<>>
        /\ \A i \in DOMAIN levels : Lower(levels[i]) # Lower(A["severity"])

\* the advisory passes the Severity Gate
Admitted(A) == GateEnabled => ~(BelowFloor(A) \/ LevelNotAllowed(A))

\* at least one keyword of the index or one compiled pattern matches the
\* searchable text of the advisory
SomethingMatched(A) ==
    \E text \in {SearchableText(A)} :
        \/ \E lowered \in {Lower(text)} :
              \E c \in DOMAIN keywords : \E k \in keywords[c] : KeywordMatches(k, lowered)
        \/ \E i \in DOMAIN regex_patterns : ReSearch(regex_patterns[i].pattern, text)

\* the returned list holds a result for the advisory
HasResult(A) == \E p \in DOMAIN filtered : filtered[p].advisory = A

\* filter_advisories has just returned: filtered is the list it returned
Returned == pc = "filtered"

\* the advisories of the batch that pass the gate and are matched
Relevant == {i \in DOMAIN advisories : Admitted(advisories[i])
                                        /\ SomethingMatched(advisories[i])}

\* C1: with the gate enabled _check_severity returns False exactly for an
\* advisory below the CVSS floor or with a non-empty severity that is not an
\* allowed level (an empty or missing severity passes the level check); with
\* the gate disabled it returns True
C1_SeverityGate ==
    Returned =>
        \A i \in DOMAIN advisories :
            LET A == advisories[i]
            IN  /\ GateEnabled
                      => (CheckSeverity(A) = FALSE <=> BelowFloor(A) \/ LevelNotAllowed(A))
                /\ GateEnabled /\ Get(A, "severity", <<>>) = <<>>
                      => (CheckSeverity(A) = FALSE <=> BelowFloor(A))
                /\ ~GateEnabled => CheckSeverity(A) = TRUE

\* C1: a run has filtered a batch in which the enabled gate rejected an advisory
\* at the floor or above for its severity alone
C1_Witness ==
    /\ pc = "filtered"
    /\ GateEnabled
    /\ \E i \in DOMAIN advisories :
          /\ ~BelowFloor(advisories[i])
          /\ LevelNotAllowed(advisories[i])
          /\ ~CheckSeverity(advisories[i])
          /\ ~HasResult(advisories[i])

\* C2 as stated, on the configurations whose max_results is not negative:
\* every advisory that passes the gate has a result in the returned list if
\* and only if something matched it
C2_ListedIffMatched ==
    Returned /\ MaxResults >= 0 =>
        \A i \in DOMAIN advisories :
            Admitted(advisories[i])
                => (HasResult(advisories[i]) <=> SomethingMatched(advisories[i]))

\* C2 amended: an advisory that passes the gate and has a result was matched,
\* and a matched one has a result whenever max_results is at least the number
\* of advisories of the batch that pass the gate and are matched
C2_ListedIffMatchedUntruncated ==
    Returned =>
        \A relevant \in {Cardinality(Relevant)} :
            \A i \in DOMAIN advisories :
                Admitted(advisories[i]) =>
                    \A matched \in {SomethingMatched(advisories[i])} :
                        /\ HasResult(advisories[i]) => matched
                        /\ MaxResults >= relevant /\ matched => HasResult(advisories[i])

\* C2: a returned list, not truncated, that holds one admitted advisory of the
\* batch and leaves out another admitted one that nothing matched
C2_Witness ==
    /\ pc = "filtered"
    /\ MaxResults >= Cardinality(Relevant)
    /\ \E i, j \in DOMAIN advisories :
          /\ Admitted(advisories[i]) /\ SomethingMatched(advisories[i])
          /\ HasResult(advisories[i])
          /\ Admitted(advisories[j]) /\ ~SomethingMatched(advisories[j])
          /\ ~HasResult(advisories[j])

\* C3: every result of the returned list is of an advisory of the batch that
\* passed the gate, and lists a matched keyword or a matched pattern
C3_ResultsAdmittedAndMatched ==
    Returned =>
        \A p \in DOMAIN filtered :
            /\ \E i \in DOMAIN advisories : advisories[i] = filtered[p].advisory
            /\ Admitted(filtered[p].advisory)
            /\ SomethingMatched(filtered[p].advisory)
            /\ \/ filtered[p].matches.matched_keywords # <<>>
               \/ filtered[p].matches.matched_patterns # <<>>

\* C3: a returned list with a result, of a batch of which another advisory was
\* matched but rejected by the gate
C3_Witness ==
    /\ pc = "filtered"
    /\ filtered # <<>>
    /\ \E i \in DOMAIN advisories :
          /\ ~Admitted(advisories[i])
          /\ SomethingMatched(advisories[i])
          /\ ~HasResult(advisories[i])

\* C4 as stated: the returned list is no longer than max(0, max_results),
\* whatever the sign of max_results
C4_LengthAtMostMaxResults == Returned => Len(filtered) <= Max(0, MaxResults)

\* the place in the batch of the advisory of the p-th result
BatchIndex(p) == CHOOSE i \in DOMAIN advisories : advisories[i] = filtered[p].advisory

\* C5: the returned list is in non-increasing score order, and results of equal
\* score are in the order of their advisories in the batch
C5_StableDescending ==
    Returned =>
        \A p, q \in DOMAIN filtered :
            p < q =>
                /\ filtered[p].relevance_score >= filtered[q].relevance_score
                /\ filtered[p].relevance_score = filtered[q].relevance_score
                      => BatchIndex(p) < BatchIndex(q)

\* C5: a returned list, ranked by computed scores, with two results of equal
\* score behind a result that stood after one of them in the batch
C5_Witness ==
    /\ pc = "filtered"
    /\ Get(Get(config, "ranking", EmptyDict), "enabled", TRUE)
    /\ \E p, q \in DOMAIN filtered :
          /\ p < q
          /\ filtered[p].relevance_score = filtered[q].relevance_score
    /\ \E p, q \in DOMAIN filtered :
          /\ p < q
          /\ filtered[p].relevance_score > filtered[q].relevance_score
          /\ BatchIndex(p) > BatchIndex(q)

\* C6 as stated: the keyword log4j matches the text "uses log4j2-core"
C6_Log4jMatchesInsideToken ==
    pc = "matched" /\ mKeyword = K_log4j /\ mText = T_uses_log4j => mResult = <<K_log4j>>

\* C6 amended: the keyword log4j, made of word characters only, does not match
\* "uses log4j2-core", where the word character 2 follows it; the keyword
\* log4j2-, which holds a hyphen, matches it inside the token log4j2-core
C6_Log4jNeedsWordBoundary ==
    pc = "matched" /\ mText = T_uses_log4j =>
        /\ mKeyword = K_log4j => mResult = <<>>
        /\ mKeyword = K_log4j2_dash => mResult = <<K_log4j2_dash>>

\* C6: _match_keywords has returned for the keyword log4j and that text
C6_Witness ==
    pc = "matched" /\ mKeyword = K_log4j /\ mText = T_uses_log4j /\ mResult = <<>>

\* k occurs in t with no word character right before it and none right after
WholeToken(k, t) ==
    \E i \in 1..(Len(t) - Len(k) + 1) :
        /\ \A j \in 1..Len(k) : t[i + j - 1] = k[j]
        /\ i = 1 \/ t[i - 1] \notin WordChars
        /\ i + Len(k) > Len(t) \/ t[i + Len(k)] \notin WordChars

\* the characters of the normalized keyword are all word characters
OnlyWordChars(k) == k # <<>> /\ Range(k) \subseteq WordChars

\* C7: a normalized keyword of word characters only is returned by
\* _match_keywords exactly when it stands in the lower-cased text as a whole
\* token; xss matches "XSS vulnerability" and does not match "taxssystem"
C7_WordBoundary ==
    pc = "matched" =>
        /\ \A k \in {NormalizeKeyword(mKeyword)} :
              OnlyWordChars(k) =>
                  /\ mResult \in {<<>>, <<k>>}
                  /\ mResult = <<k>> <=> WholeToken(k, Lower(mText))
        /\ mKeyword = K_xss /\ mText = T_xss_vuln => mResult = <<K_xss>>
        /\ mKeyword = K_xss /\ mText = T_taxssystem => mResult = <<>>

\* C7: _match_keywords has returned nothing for a keyword of word characters
\* that occurs in the text, but only inside a longer token
C7_Witness ==
    /\ pc = "matched"
    /\ OnlyWordChars(NormalizeKeyword(mKeyword))
    /\ Contains(NormalizeKeyword(mKeyword), Lower(mText))
    /\ mResult = <<>>

\* C8 as stated: a keyword that is empty once normalized is never listed in
\* the matched_keywords of a result (the searchable text, which holds the
\* separators of the join, is never empty)
C8_EmptyKeywordNeverMatches ==
    Returned =>
        \A p \in DOMAIN filtered :
            \A e \in DOMAIN filtered[p].matches.matched_keywords :
                <<>> \notin Range(filtered[p].matches.matched_keywords[e].value)

\* ranking.enabled, true when absent
RankingEnabled == Get(Get(config, "ranking", EmptyDict), "enabled", TRUE)

\* the configured weight, or the default the specification names
Weight(name, default) ==
    LET ranking == Get(config, "ranking", EmptyDict)
        weights == IF "weights" \in DOMAIN ranking THEN ranking["weights"] ELSE EmptyDict
    IN  IF name \in DOMAIN weights THEN weights[name] ELSE default

\* the number of matched keywords listed in a Match Result, over all entries
KeywordCount(matches) ==
    Cardinality(UNION {{<<e, j>> : j \in DOMAIN matches.matched_keywords[e].value} :
                          e \in DOMAIN matches.matched_keywords})

\* the severity bonus of the specification
Bonus(A) ==
    LET severity == IF "severity" \in DOMAIN A THEN Lower(A["severity"]) ELSE <<>>
    IN  CASE severity = S_critical -> Weight("severity_critical", 15)
          [] severity = S_high -> Weight("severity_high", 10)
          [] severity = S_medium -> Weight("severity_medium", 5)
          [] OTHER -> 0

\* C9: with ranking enabled the score of every result is the weighted sum of
\* its matched keywords, matched categories and matched patterns plus the
\* bonus of its lower-cased severity, the weights defaulting to 10, 5, 7 and
\* 15, 10, 5
C9_Score ==
    Returned /\ RankingEnabled =>
        \A p \in DOMAIN filtered :
            filtered[p].relevance_score =
                KeywordCount(filtered[p].matches) * Weight("exact_match", 10)
                + Len(filtered[p].matches.matched_categories) * Weight("category_match", 5)
                + Len(filtered[p].matches.matched_patterns) * Weight("regex_match", 7)
                + Bonus(filtered[p].advisory)

\* C9: a result scored under partly configured weights, with a matched
\* keyword, a matched pattern and a severity written in mixed case that earns
\* the default bonus of critical
C9_Witness ==
    /\ pc = "filtered"
    /\ RankingEnabled
    /\ DOMAIN Get(Get(config, "ranking", EmptyDict), "weights", EmptyDict)
          = {"exact_match", "severity_high"}
    /\ \E p \in DOMAIN filtered :
          /\ filtered[p].matches.matched_keywords # <<>>
          /\ filtered[p].matches.matched_patterns # <<>>
          /\ Get(filtered[p].advisory, "severity", <<>>) = S_Critical
          /\ filtered[p].relevance_score = 3 + 5 + 7 + 15

\* C10 as stated: the second run on the same configuration and batch prints
\* what the first run printed
C10_SecondRunIdentical == run = 2 /\ pc = "done" => stdout = firstOutput

\* the configured categories, in configuration order
Categories == Get(config, "categories", <<>>)

\* the display name of the i-th configured category: its name, or its id when
\* it has no name
DisplayName(i) ==
    IF "name" \in DOMAIN Categories[i].data THEN Categories[i].data["name"]
    ELSE Categories[i].id

\* C11 as stated: the names in matched_categories of a result are pairwise
\* distinct, each is the display name (the id, when there is none) of a
\* configured category, and they stand in configuration order
C11_CategoriesDistinctInOrder ==
    Returned =>
        \A p \in DOMAIN filtered :
            \A mc \in {filtered[p].matches.matched_categories} :
                /\ \A a, b \in DOMAIN mc : a # b => mc[a] # mc[b]
                /\ \A a \in DOMAIN mc : \E i \in DOMAIN Categories : DisplayName(i) = mc[a]
                /\ \A a, b \in DOMAIN mc :
                      a < b => \E i, j \in DOMAIN Categories :
                                  i < j /\ DisplayName(i) = mc[a] /\ DisplayName(j) = mc[b]

\* the configured patterns, none when the patterns are disabled
EnabledPatterns ==
    LET regex == Get(config, "regex_patterns", EmptyDict)
    IN  IF "enabled" \in DOMAIN regex /\ ~regex["enabled"] THEN <<>>
        ELSE Get(regex, "patterns", <<>>)

\* the places among the enabled patterns of those that compile
Compiling == {i \in DOMAIN EnabledPatterns : ReCompiles(EnabledPatterns[i]["pattern"])}

\* C12: the Filtered Batch printed by a run counts the whole batch in
\* total_advisories, the returned results in filtered_advisories, the
\* configured categories in categories_used and the patterns that compiled in
\* regex_patterns_used; on an empty batch filter_efficiency is "0.0%", and one
\* result out of two advisories gives "50.0%"
C12_Counters ==
    pc = "done" =>
        /\ stdout.total_advisories = Len(advisories)
        /\ stdout.results = filtered
        /\ stdout.filtered_advisories = Len(stdout.results)
        /\ stdout.statistics.categories_used = Len(Categories)
        /\ stdout.statistics.regex_patterns_used = Cardinality(Compiling)
        /\ advisories = <<>> => stdout.statistics.filter_efficiency = <<"0", ".", "0", "%">>
        /\ Len(advisories) = 2 /\ Len(filtered) = 1
              => stdout.statistics.filter_efficiency = <<"5", "0", ".", "0", "%">>

\* C12: a run has printed the Filtered Batch of a batch whose results were
\* truncated, under a configuration one pattern of which did not compile
C12_Witness ==
    /\ pc = "done"
    /\ stdout.total_advisories > Cardinality(Relevant)
    /\ Cardinality(Relevant) > stdout.filtered_advisories
    /\ stdout.filtered_advisories > 0
    /\ Cardinality(Compiling) < Len(EnabledPatterns)
    /\ Cardinality(Compiling) > 0

\* the place among the enabled patterns of the i-th one that compiles
NthCompiling(i) ==
    CHOOSE k \in Compiling : Cardinality({j \in Compiling : j < k}) = i - 1

\* C13: once initialization is over the filter holds exactly the configured
\* patterns that compile, in configured order: every pattern that does not
\* compile is skipped without aborting, whatever patterns stand before or
\* after it; with regex_patterns.enabled false it holds none
C13_CompiledPatterns ==
    pc # "start" =>
        /\ pc # "aborted"
        /\ Len(regex_patterns) = Cardinality(Compiling)
        /\ \A i \in DOMAIN regex_patterns :
              regex_patterns[i].original = EnabledPatterns[NthCompiling(i)]["pattern"]
        /\ ~Get(Get(config, "regex_patterns", EmptyDict), "enabled", TRUE)
              => regex_patterns = <<>>

\* the places in the batch of the first n advisories that pass the gate and
\* are matched
FirstRelevant(n) == {i \in Relevant : Cardinality({j \in Relevant : j < i}) < n}

\* C14 as stated: with ranking.enabled false every returned result has score
\* 1 and the returned list is, in batch order, the first max_results advisories
\* of the batch that pass the gate and are matched
C14_DisabledRankingKeepsInputOrder ==
    Returned /\ ~RankingEnabled =>
        /\ \A p \in DOMAIN filtered : filtered[p].relevance_score = DisabledScore
        /\ \A p, q \in DOMAIN filtered : p < q => BatchIndex(p) < BatchIndex(q)
        /\ {BatchIndex(p) : p \in DOMAIN filtered} = FirstRelevant(MaxResults)

\* the run is one of filter_advisories.py
FilterRun == argv[1] = "filter_advisories.py"

\* the file named by the i-th argument is missing or does not parse
FailsToLoad(i) == ~argv[i].exists \/ ~argv[i].parses

\* the formats generate_notification.py knows, compared without regard to case
KnownFormats == {F_markdown, F_json, F_teams, F_slack}

\* a fatal condition of the run: the configuration, the advisory batch or the
\* results file named on the command line fails to load, or the requested
\* output format is unknown
FatalCondition ==
    /\ Len(argv) >= 3
    /\ \/ FilterRun /\ (FailsToLoad(2) \/ FailsToLoad(3))
       \/ ~FilterRun /\ (FailsToLoad(2) \/ Lower(argv[3]) \notin KnownFormats)

\* C15: a run of either script under a fatal condition never gets past its
\* loading steps: it has filtered no advisory and written nothing to stdout,
\* and once it has ended its status is not zero; any run writes to stdout at
\* most once, and a run that has written had no fatal condition and ended
\* with that write, with status zero
C15_FatalPaths ==
    /\ FatalCondition =>
          /\ pc \in {"start", "notify_start", "notify_loaded", "exited"}
          /\ pc = "exited" <=> exit_status # <<>>
          /\ exit_status # <<>> => exit_status[1] # 0
          /\ filtered = <<>>
          /\ stdout = NoOutput
          /\ writes = 0
    /\ writes <= 1
    /\ writes = 1 =>
          /\ ~FatalCondition
          /\ pc \in {"done", "notify_done"}
          /\ exit_status = <<0>>
          /\ stdout # NoOutput

\* C15: generate_notification.py has loaded its results, found the requested
\* format unknown and ended with status 1 without writing to stdout
C15_Witness ==
    /\ pc = "exited"
    /\ ~FilterRun
    /\ FatalCondition
    /\ filtered_data = SavedResults
    /\ Lower(argv[3]) = F_html
    /\ exit_status = <<1>>
    /\ stdout = NoOutput

====
